---- MODULE Spec2Model ----
(***************************************************************************)
(* promcron: the time-specification compiler (cron.go: parseTimeField,     *)
(* parseTimeRange, getBits, ParseJobs), the job predicate and lifecycle    *)
(* (job.go: ShouldRunAt, IsRunning, Start, Wait) and the scheduler loop    *)
(* (main.go: main, delayTillNextCheck, onJobExit).                         *)
(*                                                                         *)
(* A Go string is a sequence of one-character strings; a uint64 bitset is  *)
(* the set of its set bit positions, a subset of 0..63.                    *)
(***************************************************************************)
EXTENDS Integers, Sequences, FiniteSets, TLC

VARIABLES
    call,       \* the arguments of the library call under examination
    ret,        \* its result, NotRun before the call has returned
    probe,      \* one evaluation of ShouldRunAt on a compiled job
    jobs,       \* main's jobs: the compiled table
    clock,      \* the system clock: wall seconds, monotonic seconds, nanoseconds
    now,        \* main's now, delay, nextCheck and prevCheck
    delay,
    nextCheck,
    prevCheck,
    pc,         \* where the control task (main) is
    idx,        \* the job its loop is at
    done,       \* whether the done channel is closed
    sigs,       \* how many signals the signal goroutine has received
    running,    \* Job.running of each job
    wg,         \* the counter of each Job.wg
    execs,      \* the goroutines Start has spawned for each job, and where each is
    runningGauge, overdue, success, failure,    \* per-job metrics
    forward, backward,                          \* forwardTimeSkips, backwardTimeSkips
    ticks,      \* history: the wake-ups of the loop so far
    starts,     \* history: the executions launched for each job
    dueTicks    \* history: the ticks at which each job was found due

libVars    == <<call, ret, probe>>
timeVars   == <<clock, now, delay, nextCheck, prevCheck>>
ctlVars    == <<pc, idx, done, sigs>>
jobVars    == <<running, wg, execs>>
metricVars == <<runningGauge, overdue, success, failure, forward, backward>>
histVars   == <<ticks, starts, dueTicks>>
schedVars  == <<jobs, timeVars, ctlVars, jobVars, metricVars, histVars>>

vars == <<libVars, schedVars>>

NotRun == [state |-> "not run"]

-----------------------------------------------------------------------------
(* uint64 words                                                            *)

Word == 0..63

\* math.MaxUint64
MaxUint64 == Word

\* w << k on a uint64: bits shifted past bit 63 are lost
Shl(w, k) == {i + k : i \in w} \cap Word

\* ^w
Not(w) == Word \ w

\* 1 << i converted to uint64
Bit(i) == IF i \in Word THEN {i} ELSE {}

\* cron.go: starBit = 1 << 63
starBit == Bit(63)

-----------------------------------------------------------------------------
(* getBits                                                                 *)

RECURSIVE getBitsLoop(_, _, _, _)
\* for i := min; i <= max; i += step { bits |= 1 << i }
getBitsLoop(i, max, step, bits) ==
    IF i <= max THEN getBitsLoop(i + step, max, step, bits \cup Bit(i))
    ELSE bits

\* a closed form that leaves the top of the range out
getBitsShort(min, max, step) ==
    IF step = 1 THEN Not(Shl(MaxUint64, max)) \cap Shl(MaxUint64, min)
    ELSE getBitsLoop(min, max, step, {})

getBits(min, max, step) ==
    IF step = 1 THEN Not(Shl(MaxUint64, max + 1)) \cap Shl(MaxUint64, min)
    ELSE getBitsLoop(min, max, step, {})

-----------------------------------------------------------------------------
(* strings (package strings, strconv)                                      *)

DigitChars == <<"0", "1", "2", "3", "4", "5", "6", "7", "8", "9">>
UpperChars == <<"A", "B", "C", "D", "E", "F", "G", "H", "I", "J", "K", "L", "M",
                "N", "O", "P", "Q", "R", "S", "T", "U", "V", "W", "X", "Y", "Z">>
LowerChars == <<"a", "b", "c", "d", "e", "f", "g", "h", "i", "j", "k", "l", "m",
                "n", "o", "p", "q", "r", "s", "t", "u", "v", "w", "x", "y", "z">>

IsDigit(c) == \E d \in DOMAIN DigitChars : DigitChars[d] = c
DigitVal(c) == (CHOOSE d \in DOMAIN DigitChars : DigitChars[d] = c) - 1

\* strings.ToLower on ASCII text
ToLowerChar(c) ==
    IF \E k \in DOMAIN UpperChars : UpperChars[k] = c
    THEN LowerChars[CHOOSE k \in DOMAIN UpperChars : UpperChars[k] = c]
    ELSE c
ToLower(s) == [k \in DOMAIN s |-> ToLowerChar(s[k])]

RECURSIVE SplitFrom(_, _, _, _, _)
SplitFrom(s, sep, k, cur, out) ==
    IF k > Len(s) THEN Append(out, cur)
    ELSE IF s[k] = sep THEN SplitFrom(s, sep, k + 1, <<>>, Append(out, cur))
    ELSE SplitFrom(s, sep, k + 1, Append(cur, s[k]), out)

\* strings.Split(s, sep) for a one-character sep: Count(s, sep) + 1 pieces,
\* empty pieces kept
Split(s, sep) == SplitFrom(s, sep, 1, <<>>, <<>>)

RECURSIVE FieldsFrom(_, _, _, _, _)
FieldsFrom(s, seps, k, cur, out) ==
    IF k > Len(s) THEN (IF cur = <<>> THEN out ELSE Append(out, cur))
    ELSE IF s[k] \in seps
         THEN FieldsFrom(s, seps, k + 1, <<>>,
                         IF cur = <<>> THEN out ELSE Append(out, cur))
    ELSE FieldsFrom(s, seps, k + 1, Append(cur, s[k]), out)

\* strings.FieldsFunc(s, f) with f the membership in seps: the maximal runs
\* of characters outside seps, no empty piece
FieldsFunc(s, seps) == FieldsFrom(s, seps, 1, <<>>, <<>>)

\* unicode.IsSpace on the characters a table is written with
SpaceChars == {" ", "\t", "\n", "\r", "\f"}

RECURSIVE TrimLeft(_)
TrimLeft(s) ==
    IF s # <<>> /\ Head(s) \in SpaceChars THEN TrimLeft(Tail(s)) ELSE s
RECURSIVE TrimRight(_)
TrimRight(s) ==
    IF s # <<>> /\ s[Len(s)] \in SpaceChars
    THEN TrimRight(SubSeq(s, 1, Len(s) - 1)) ELSE s

\* strings.TrimSpace
TrimSpace(s) == TrimRight(TrimLeft(s))

RECURSIVE DigitsValue(_, _)
DigitsValue(s, acc) ==
    IF s = <<>> THEN acc ELSE DigitsValue(Tail(s), acc * 10 + DigitVal(Head(s)))

\* strconv.Atoi, for texts short enough for its fast path: an optional sign
\* and then decimal digits only
Atoi(s) ==
    IF s = <<>> THEN [n |-> 0, ok |-> FALSE]
    ELSE LET signed == Head(s) \in {"-", "+"}
             digits == IF signed THEN Tail(s) ELSE s
         IN  IF digits = <<>> \/ \E k \in DOMAIN digits : ~IsDigit(digits[k])
             THEN [n |-> 0, ok |-> FALSE]
             ELSE [n |-> IF Head(s) = "-" THEN 0 - DigitsValue(digits, 0)
                                          ELSE DigitsValue(digits, 0),
                   ok |-> TRUE]

RECURSIVE ItoaDigits(_)
ItoaDigits(n) ==
    IF n < 10 THEN <<DigitChars[n + 1]>>
    ELSE Append(ItoaDigits(n \div 10), DigitChars[(n % 10) + 1])

\* strconv.Itoa / the %d verb
Itoa(n) == IF n < 0 THEN <<"-">> \o ItoaDigits(0 - n) ELSE ItoaDigits(n)

-----------------------------------------------------------------------------
(* errors: nil, or a message with what it names                            *)

nil == [msg |-> "nil"]
Errorf(m, e) == [msg |-> m, expr |-> e]

-----------------------------------------------------------------------------
(* bounds                                                                  *)

monthNames ==
    { <<<<"j", "a", "n">>, 1>>,  <<<<"f", "e", "b">>, 2>>,
      <<<<"m", "a", "r">>, 3>>,  <<<<"a", "p", "r">>, 4>>,
      <<<<"m", "a", "y">>, 5>>,  <<<<"j", "u", "n">>, 6>>,
      <<<<"j", "u", "l">>, 7>>,  <<<<"a", "u", "g">>, 8>>,
      <<<<"s", "e", "p">>, 9>>,  <<<<"o", "c", "t">>, 10>>,
      <<<<"n", "o", "v">>, 11>>, <<<<"d", "e", "c">>, 12>> }

dowNames ==
    { <<<<"s", "u", "n">>, 0>>, <<<<"m", "o", "n">>, 1>>,
      <<<<"t", "u", "e">>, 2>>, <<<<"w", "e", "d">>, 3>>,
      <<<<"t", "h", "u">>, 4>>, <<<<"f", "r", "i">>, 5>>,
      <<<<"s", "a", "t">>, 6>> }

\* a nil names map is the empty set of pairs
minuteBound == [min |-> 0, max |-> 59, names |-> {}]
hourBound   == [min |-> 0, max |-> 23, names |-> {}]
domBound    == [min |-> 1, max |-> 31, names |-> {}]
monthBound  == [min |-> 1, max |-> 12, names |-> monthNames]
dowBound    == [min |-> 0, max |-> 6,  names |-> dowNames]

\* the five fields of a table line and the bounds each is compiled with
Kinds == {"minute", "hour", "dom", "month", "dow"}

BoundOf(kind) ==
    CASE kind = "minute" -> minuteBound
      [] kind = "hour"   -> hourBound
      [] kind = "dom"    -> domBound
      [] kind = "month"  -> monthBound
      [] kind = "dow"    -> dowBound

-----------------------------------------------------------------------------
(* the time-field compiler                                                 *)

mustParseInt(expr) ==
    LET a == Atoi(expr)
    IN  IF ~a.ok THEN [val |-> 0, err |-> Errorf("failed to parse int", expr)]
        ELSE IF a.n < 0
             THEN [val |-> 0, err |-> Errorf("negative number not allowed", expr)]
        ELSE [val |-> a.n, err |-> nil]

parseIntOrName(expr, names) ==
    IF names # {} /\ \E p \in names : p[1] = ToLower(expr)
    THEN [val |-> (CHOOSE p \in names : p[1] = ToLower(expr))[2], err |-> nil]
    ELSE mustParseInt(expr)

\* the step of a range-expression: rangeAndStep[1] when there is one slash
StepOf(rangeAndStep, expr) ==
    CASE Len(rangeAndStep) = 1 -> [val |-> 1, err |-> nil]
      [] Len(rangeAndStep) = 2 -> mustParseInt(rangeAndStep[2])
      [] OTHER -> [val |-> 0, err |-> Errorf("too many slashes", expr)]

\* start and end of a range part that is not "*", once its low end is read
LowHighFrom(lo, lowAndHigh, r, expr) ==
    IF lo.err # nil
    THEN [start |-> 0, end |-> 0, extra |-> {}, err |-> lo.err]
    ELSE CASE Len(lowAndHigh) = 1 ->
                [start |-> lo.val, end |-> lo.val, extra |-> {}, err |-> nil]
           [] Len(lowAndHigh) = 2 ->
                LET hi == parseIntOrName(lowAndHigh[2], r.names)
                IN  [start |-> lo.val, end |-> hi.val, extra |-> {},
                     err |-> hi.err]
           [] OTHER ->
                [start |-> lo.val, end |-> 0, extra |-> {},
                 err |-> Errorf("too many hyphens", expr)]

\* start and end of the range part, before the step is looked at
LowHighOf(lowAndHigh, r, expr) ==
    IF lowAndHigh[1] = <<"*">>
    THEN [start |-> r.min, end |-> r.max, extra |-> starBit, err |-> nil]
    ELSE LowHighFrom(parseIntOrName(lowAndHigh[1], r.names), lowAndHigh, r, expr)

\* the end of "N/step" left at N
StepRulesNoMax(lh, st, hasStep, singleDigit, r) ==
    IF lh.err # nil
    THEN [start |-> 0, end |-> 0, step |-> 0, extra |-> {}, err |-> lh.err]
    ELSE IF st.err # nil
    THEN [start |-> 0, end |-> 0, step |-> 0, extra |-> {}, err |-> st.err]
    ELSE [start |-> lh.start,
          end   |-> lh.end,
          step  |-> st.val,
          extra |-> IF hasStep /\ st.val > 1 THEN {} ELSE lh.extra,
          err   |-> nil]

\* the star tag kept whatever the step
StepRulesKeepStar(lh, st, hasStep, singleDigit, r) ==
    IF lh.err # nil
    THEN [start |-> 0, end |-> 0, step |-> 0, extra |-> {}, err |-> lh.err]
    ELSE IF st.err # nil
    THEN [start |-> 0, end |-> 0, step |-> 0, extra |-> {}, err |-> st.err]
    ELSE [start |-> lh.start,
          end   |-> IF hasStep /\ singleDigit THEN r.max ELSE lh.end,
          step  |-> st.val,
          extra |-> lh.extra,
          err   |-> nil]

\* what the step does to the range lh: with a step (hasStep) a single value
\* runs to the maximum, and a step above 1 clears the star tag
StepRules(lh, st, hasStep, singleDigit, r) ==
    IF lh.err # nil
    THEN [start |-> 0, end |-> 0, step |-> 0, extra |-> {}, err |-> lh.err]
    ELSE IF st.err # nil
    THEN [start |-> 0, end |-> 0, step |-> 0, extra |-> {}, err |-> st.err]
    ELSE [start |-> lh.start,
          end   |-> IF hasStep /\ singleDigit THEN r.max ELSE lh.end,
          step  |-> st.val,
          extra |-> IF hasStep /\ st.val > 1 THEN {} ELSE lh.extra,
          err   |-> nil]

\* the resolution of the two splits of a range-expression
ResolveParts(rangeAndStep, lowAndHigh, r, expr) ==
    StepRules(LowHighOf(lowAndHigh, r, expr), StepOf(rangeAndStep, expr),
              Len(rangeAndStep) = 2, Len(lowAndHigh) = 1, r)

\* parseTimeRange down to its validation: start, end, step and the star tag
\* of a range-expression, or the error that stopped their resolution
ResolveSplit(rangeAndStep, r, expr) ==
    ResolveParts(rangeAndStep, Split(rangeAndStep[1], "-"), r, expr)

ResolveRange(expr, r) == ResolveSplit(Split(expr, "/"), r, expr)

\* the validation without its start > end test
ValidateNoOrder(rr, r, expr) ==
    IF rr.start < r.min THEN Errorf("beginning of range below minimum", expr)
    ELSE IF rr.end > r.max THEN Errorf("end of range above maximum", expr)
    ELSE IF rr.step = 0 THEN Errorf("step of range should be a positive number", expr)
    ELSE nil

\* the validation without its end > max test
ValidateNoMax(rr, r, expr) ==
    IF rr.start < r.min THEN Errorf("beginning of range below minimum", expr)
    ELSE IF rr.start > rr.end THEN Errorf("beginning of range beyond end of range", expr)
    ELSE IF rr.step = 0 THEN Errorf("step of range should be a positive number", expr)
    ELSE nil

Validate(rr, r, expr) ==
    IF rr.start < r.min THEN Errorf("beginning of range below minimum", expr)
    ELSE IF rr.end > r.max THEN Errorf("end of range above maximum", expr)
    ELSE IF rr.start > rr.end THEN Errorf("beginning of range beyond end of range", expr)
    ELSE IF rr.step = 0 THEN Errorf("step of range should be a positive number", expr)
    ELSE nil

\* the bits of a range that passed the validation, or its error
Validated(rr, err) ==
    IF err # nil THEN [bits |-> {}, err |-> err]
    ELSE [bits |-> getBits(rr.start, rr.end, rr.step) \cup rr.extra, err |-> nil]

Resolved(rr, r, expr) ==
    IF rr.err # nil THEN [bits |-> {}, err |-> rr.err]
    ELSE Validated(rr, Validate(rr, r, expr))

parseTimeRange(expr, r) == Resolved(ResolveRange(expr, r), r, expr)

RECURSIVE parseRanges(_, _, _, _)
\* one turn of the loop of parseTimeField: the result one of parseTimeRange
\* on the k-th range ends the loop or is or-ed into the bits
AddRange(ranges, k, r, acc, one) ==
    LET made == Append(acc.calls, [expr |-> ranges[k], bits |-> one.bits,
                                   err |-> one.err])
    IN  IF one.err # nil
        THEN [bits |-> acc.bits, err |-> one.err, calls |-> made]
        ELSE parseRanges(ranges, k + 1, r,
                         [bits |-> acc.bits \cup one.bits, err |-> nil,
                          calls |-> made])

\* the loop of parseTimeField from its k-th range on: the bits so far, the
\* error that ended it and the calls of parseTimeRange it made
parseRanges(ranges, k, r, acc) ==
    IF k > Len(ranges) THEN acc
    ELSE AddRange(ranges, k, r, acc, parseTimeRange(ranges[k], r))

parseTimeField(field, r) ==
    parseRanges(FieldsFunc(field, {","}), 1, r,
                [bits |-> {}, err |-> nil, calls |-> <<>>])

-----------------------------------------------------------------------------
(* the table compiler                                                      *)

RECURSIVE TokenizeFrom(_, _, _, _, _)
\* the ST_FIELD / ST_WS scan of one line, from its k-th character on
TokenizeFrom(l, k, state, curField, fields) ==
    IF k > Len(l) THEN Append(fields, curField)
    ELSE IF state = "ST_FIELD"
         THEN IF Len(fields) # 6 /\ l[k] \in {" ", "\t"}
              THEN TokenizeFrom(l, k + 1, "ST_WS", <<>>, Append(fields, curField))
              ELSE TokenizeFrom(l, k + 1, "ST_FIELD", Append(curField, l[k]), fields)
    ELSE IF l[k] \notin {" ", "\t"}
         THEN TokenizeFrom(l, k + 1, "ST_FIELD", Append(curField, l[k]), fields)
         ELSE TokenizeFrom(l, k + 1, "ST_WS", curField, fields)

\* the fields ParseJobs splits a line into
Tokenize(l) == TokenizeFrom(l, 1, "ST_WS", <<>>, <<>>)

\* a line ParseJobs passes over
SkippedLine(l) == TrimSpace(l) = <<>> \/ l[1] = "#"

\* the five time fields in the order ParseJobs compiles them, with the
\* message each is wrapped in
FieldOrder == <<"minute", "hour", "dom", "month", "dow">>
FieldMessage(kind) ==
    CASE kind = "minute" -> "invalid minute spec"
      [] kind = "hour"   -> "invalid hour spec"
      [] kind = "dom"    -> "invalid day of month spec"
      [] kind = "month"  -> "invalid month spec"
      [] kind = "dow"    -> "invalid day of week spec"

Wrap(m, cause) == [msg |-> m, cause |-> cause]

\* parseError: the source and the line index in front of the error
parseError(fname, lno, err) ==
    [msg |-> "parse error", fname |-> fname, lno |-> lno, cause |-> err]

RECURSIVE CompileFields(_, _, _)
\* the result c of parseTimeField on the k-th time field ends the
\* compilation, wrapped with the field's message, or is kept
AddField(fields, k, acc, c) ==
    IF c.err # nil
    THEN [bits |-> acc, err |-> Wrap(FieldMessage(FieldOrder[k]), c.err)]
    ELSE CompileFields(fields, k + 1, Append(acc, c.bits))

\* the compilation of fields[2..6] from the k-th time field on: the bitsets
\* so far, or the first error wrapped with its field's message
CompileFields(fields, k, acc) ==
    IF k > Len(FieldOrder) THEN [bits |-> acc, err |-> nil]
    ELSE AddField(fields, k, acc,
                  parseTimeField(fields[k + 1], BoundOf(FieldOrder[k])))

\* the Job of seven fields whose time fields compiled as c
JobOf(fields, c) ==
    IF c.err # nil THEN [job |-> <<>>, err |-> c.err]
    ELSE [job |-> [Name    |-> fields[1],
                   Minute  |-> c.bits[1],
                   Hour    |-> c.bits[2],
                   Dom     |-> c.bits[3],
                   Month   |-> c.bits[4],
                   Dow     |-> c.bits[5],
                   Command |-> fields[7]],
          err |-> nil]

ParseFields(fields) ==
    IF Len(fields) # 7
    THEN [job |-> <<>>,
          err |-> Wrap("expected a label, timespec and a command", nil)]
    ELSE JobOf(fields, CompileFields(fields, 1, <<>>))

\* one line that is not passed over: its Job, or its error
ParseLine(l) == ParseFields(Tokenize(l))

RECURSIVE ParseLines(_, _, _, _)
\* a loop that passes over a line in error and keeps the jobs of the others
AddLineLenient(lines, k, fname, parsed, one) ==
    ParseLines(lines, k + 1, fname,
               IF one.err # nil THEN parsed ELSE Append(parsed, one.job))

\* the result one of the k-th line ends the loop with a parse error and no
\* job (the nil slice), or its job is appended
AddLine(lines, k, fname, parsed, one) ==
    IF one.err # nil
    THEN [jobs |-> <<>>, nilJobs |-> TRUE,
          err |-> parseError(fname, k - 1, one.err)]
    ELSE ParseLines(lines, k + 1, fname, Append(parsed, one.job))

\* the loop of ParseJobs from the k-th line on (lno = k - 1)
ParseLines(lines, k, fname, parsed) ==
    IF k > Len(lines) THEN [jobs |-> parsed, nilJobs |-> FALSE, err |-> nil]
    ELSE IF SkippedLine(lines[k]) THEN ParseLines(lines, k + 1, fname, parsed)
    ELSE AddLine(lines, k, fname, parsed, ParseLine(lines[k]))

ParseJobs(fname, tab) == ParseLines(Split(tab, "\n"), 1, fname, <<>>)

-----------------------------------------------------------------------------
(* the job predicate                                                       *)

\* a uint64 is > 0 iff some bit is set
NonZero(w) == w # {}

\* t: the Minute(), Hour(), Day(), Month() and Weekday() of a time.Time
ShouldRunAtAlwaysAnd(j, t) ==
    IF ~NonZero(Bit(t.minute) \cap j.Minute) THEN FALSE
    ELSE IF ~NonZero(Bit(t.hour) \cap j.Hour) THEN FALSE
    ELSE IF ~NonZero(Bit(t.month) \cap j.Month) THEN FALSE
    ELSE NonZero(Bit(t.day) \cap j.Dom) /\ NonZero(Bit(t.weekday) \cap j.Dow)

ShouldRunAt(j, t) ==
    IF ~NonZero(Bit(t.minute) \cap j.Minute) THEN FALSE
    ELSE IF ~NonZero(Bit(t.hour) \cap j.Hour) THEN FALSE
    ELSE IF ~NonZero(Bit(t.month) \cap j.Month) THEN FALSE
    ELSE LET domMatch == NonZero(Bit(t.day) \cap j.Dom)
             dowMatch == NonZero(Bit(t.weekday) \cap j.Dow)
         IN  IF NonZero(j.Dom \cap starBit) \/ NonZero(j.Dow \cap starBit)
             THEN domMatch /\ dowMatch
             ELSE domMatch \/ dowMatch

-----------------------------------------------------------------------------
(* the calls examined: inputs                                              *)

\* the largest step written in a generated "N/S"
MaxStep == 12
\* the most range parts joined by hyphens, and the most list elements
MaxParts == 3

RECURSIVE Join(_, _)
Join(parts, sep) ==
    IF parts = <<>> THEN <<>>
    ELSE IF Len(parts) = 1 THEN parts[1]
    ELSE parts[1] \o sep \o Join(Tail(parts), sep)

SeqsUpTo(S, n) == UNION {[1..k -> S] : k \in 1..n}

\* texts a range part is written with: the star, values at, inside and
\* just outside the bounds, names in several cases, and texts that are none
PartTexts(r) ==
    { <<"*">>, <<>>, <<"x">>, <<"m", "o", "n">>, <<"J", "a", "n">>,
      <<"0">>, Itoa(r.min), Itoa(r.max), Itoa(r.max + 1) }

\* what follows the range part: nothing, or slashes and step texts
StepTexts ==
    { <<>>, <<"/">>, <<"/", "0">>, <<"/", "1">>, <<"/", "2">>, <<"/", "+", "3">>,
      <<"/", "-", "1">>, <<"/", "-", "0">>, <<"/", "x">>, <<"/", "1", "/", "2">>,
      <<"/", "9", "9">> }

\* the elements of generated comma lists
ListElems ==
    { <<>>, <<"*">>, <<"*", "/", "1">>, <<"*", "/", "2">>, <<"1">>,
      <<"1", "-", "5">>, <<"2", "/", "2">>, <<"x">>, <<"9", "9">> }

\* the most lines of a generated table
MaxLines == 3

STAR == <<"*">>
CMD  == <<"t", "r", "u", "e">>

\* a table line: seven tokens with one separator between them
Line(tokens, sep) == Join(tokens, sep)

\* lines of generated tables: well formed, with a field that does not
\* compile, with too few tokens, comments, blank lines, commands with spaces
TableLines ==
    { Line(<<<<"j">>, m, STAR, STAR, STAR, STAR, CMD>>, sep) :
        m \in {STAR, <<"*", "/", "5">>, <<"0", "-", "5", "-", "1", "0">>},
        sep \in {<<" ">>, <<"\t", " ">>} }
    \cup { Line(<<<<"h">>, STAR, <<"2", "4">>, STAR, STAR, STAR, CMD>>, <<" ">>),
           Line(<<<<"d">>, STAR, STAR, <<"0">>, STAR, STAR, CMD>>, <<" ">>),
           Line(<<<<"m">>, STAR, STAR, STAR, <<"f", "o", "o">>, STAR, CMD>>, <<" ">>),
           Line(<<<<"w">>, STAR, STAR, STAR, STAR, <<"7">>, CMD>>, <<" ">>),
           Line(<<<<"b">>, <<"x">>, STAR, STAR, STAR, <<"7">>, CMD>>, <<" ">>),
           Line(<<<<"s">>, STAR, STAR, STAR, STAR, STAR>>, <<" ">>),
           Line(<<<<"t">>, STAR>>, <<" ">>),
           <<"#", " ", "c">>, <<>>, <<" ", " ">>, <<" ", "#", "c">>,
           Line(<<<<"e">>, <<"1">>, STAR, STAR, <<"D", "e", "c">>, <<"m", "o", "n">>,
                  <<"e", "c", "h", "o", " ", " ", "h", "i">>>>, <<" ">>),
           Line(<<<<"n">>, STAR, STAR, STAR, STAR, STAR, <<>>>>, <<" ">>) }

\* the day-of-month and day-of-week fields of the lines ShouldRunAt is
\* evaluated on
DomTexts ==
    { STAR, <<"1">>, <<"*", "/", "1">>, <<"*", "/", "2">>,
      <<"1", "-", "3", "1">>, <<"1", ",", "1", "5">> }
DowTexts ==
    { STAR, <<"m", "o", "n">>, <<"*", "/", "1">>, <<"*", "/", "3">>,
      <<"0", "-", "6">>, <<"M", "O", "N", ",", "f", "r", "i">> }

\* the days of each month (February of a leap year)
DaysIn(month) ==
    CASE month \in {4, 6, 9, 11} -> 30
      [] month = 2 -> 29
      [] OTHER -> 31

\* the times ShouldRunAt is evaluated at: every weekday falls on every date
\* in some year
Times ==
    { t \in [minute : {0, 1, 59}, hour : {0, 23}, day : {1, 2, 29, 31},
             month : {1, 2, 12}, weekday : 0..6] : t.day <= DaysIn(t.month) }

NoCall == [fn |-> "none"]

-----------------------------------------------------------------------------
(* the calls examined: actions                                             *)

\* getBits is called with min <= max inside one field's bounds
EnterGetBits ==
    /\ call = NoCall
    /\ \E lo \in 0..minuteBound.max : \E hi \in lo..minuteBound.max :
       \E st \in 1..MaxStep :
          call' = [fn |-> "getBits", min |-> lo, max |-> hi, step |-> st]
    /\ UNCHANGED <<ret, probe, schedVars>>

GetBitsCall ==
    /\ call.fn = "getBits"
    /\ ret = NotRun
    /\ ret' = [bits |-> getBits(call.min, call.max, call.step)]
    /\ UNCHANGED <<call, probe, schedVars>>

EnterField(kind, field) ==
    /\ call' = [fn |-> "parseTimeField", kind |-> kind, field |-> field]
    /\ UNCHANGED <<ret, probe, schedVars>>

\* a range-expression, well or ill formed
EnterRangeText ==
    /\ call = NoCall
    /\ \E k \in Kinds : \E parts \in SeqsUpTo(PartTexts(BoundOf(k)), MaxParts) :
       \E st \in StepTexts :
          EnterField(k, Join(parts, <<"-">>) \o st)

\* "N", "N/S", "N-max/S" and "*/S" for every value N in the bounds
EnterStepIdiom ==
    /\ call = NoCall
    /\ \E k \in Kinds : \E n \in BoundOf(k).min..BoundOf(k).max : \E st \in 1..MaxStep :
          \/ EnterField(k, Itoa(n))
          \/ EnterField(k, <<"*", "/">> \o Itoa(st))
          \/ EnterField(k, Itoa(n) \o <<"/">> \o Itoa(st))
          \/ EnterField(k, Itoa(n) \o <<"-">> \o Itoa(BoundOf(k).max)
                              \o <<"/">> \o Itoa(st))

\* a comma list
EnterListText ==
    /\ call = NoCall
    /\ \E k \in Kinds : \E es \in SeqsUpTo(ListElems, MaxParts) :
          EnterField(k, Join(es, <<",">>))

ParseTimeFieldCall ==
    /\ call.fn = "parseTimeField"
    /\ ret = NotRun
    /\ ret' = parseTimeField(call.field, BoundOf(call.kind))
    /\ UNCHANGED <<call, probe, schedVars>>

\* a table of up to MaxLines lines
EnterTable ==
    /\ call = NoCall
    /\ \E ls \in SeqsUpTo(TableLines, MaxLines) :
          call' = [fn |-> "ParseJobs", fname |-> "test", tab |-> Join(ls, <<"\n">>)]
    /\ UNCHANGED <<ret, probe, schedVars>>

\* a one-line table whose day fields are restricted, starred or stepped
EnterMatchTable ==
    /\ call = NoCall
    /\ \E mi \in {STAR, <<"0">>} : \E ho \in {STAR, <<"0">>} :
       \E mo \in {STAR, <<"j", "a", "n">>} :
       \E dom \in DomTexts : \E dow \in DowTexts :
          call' = [fn |-> "ParseJobs", fname |-> "test",
                   tab |-> Line(<<<<"j">>, mi, ho, dom, mo, dow, CMD>>, <<" ">>)]
    /\ UNCHANGED <<ret, probe, schedVars>>

\* a one-line table with one generated range-expression in one of its fields
EnterFieldLine ==
    /\ call = NoCall
    /\ \E k \in DOMAIN FieldOrder :
       \E parts \in SeqsUpTo(PartTexts(BoundOf(FieldOrder[k])), MaxParts) :
       \E st \in StepTexts :
          call' = [fn |-> "ParseJobs", fname |-> "test",
                   tab |-> Line([i \in 1..7 |->
                                   IF i = 1 THEN <<"j">>
                                   ELSE IF i = 7 THEN CMD
                                   ELSE IF i = k + 1 THEN Join(parts, <<"-">>) \o st
                                   ELSE STAR], <<" ">>)]
    /\ UNCHANGED <<ret, probe, schedVars>>

\* the tokens of generated one-line tables, the first n of which make a line
LineTokens ==
    << <<"j">>, STAR, <<"1">>, STAR, STAR, STAR,
       <<"e", "c", "h", "o">>, <<"h", "i">>, <<"#", "x">> >>

\* the white space put before, between and after the tokens of such a line
Blanks == { <<" ">>, <<"\t">>, <<" ", "\t">>, <<" ", " ">> }

\* a one-line table of n tokens, with white space before the first, between
\* them and after the last
EnterSpacedLine ==
    /\ call = NoCall
    /\ \E n \in 1..Len(LineTokens) :
       \E lead \in {<<>>, <<" ">>, <<"\t">>} : \E sep \in Blanks :
       \E trail \in {<<>>} \cup Blanks :
          call' = [fn |-> "ParseJobs", fname |-> "test",
                   tab |-> lead \o Join(SubSeq(LineTokens, 1, n), sep) \o trail]
    /\ UNCHANGED <<ret, probe, schedVars>>

ParseJobsCall ==
    /\ call.fn = "ParseJobs"
    /\ ret = NotRun
    /\ ret' = ParseJobs(call.fname, call.tab)
    /\ UNCHANGED <<call, probe, schedVars>>

ShouldRunAtCall ==
    /\ call.fn = "ParseJobs"
    /\ ret # NotRun
    /\ ret.err = nil
    /\ probe = NotRun
    /\ \E k \in DOMAIN ret.jobs : \E t \in Times :
          probe' = [job |-> k, t |-> t, due |-> ShouldRunAt(ret.jobs[k], t)]
    /\ UNCHANGED <<call, ret, schedVars>>

-----------------------------------------------------------------------------
(* time (package time)                                                     *)

NanosPerSec == 1000000000

\* the date of the day the clock starts in: a Friday, 1 January
BaseDate == [day |-> 1, month |-> 1, weekday |-> 5]

\* A time.Time read from the clock carries the wall time (sec since the
\* midnight of BaseDate, nsec) and a monotonic reading (mono, in seconds, with
\* the same nanoseconds: the clock is stepped by whole seconds).  A
\* time.Duration is sec seconds and nsec nanoseconds, 0 <= nsec < 10^9.
Seconds(n) == [sec |-> n, nsec |-> 0]

\* t.Add(d): on the wall and on the monotonic reading alike
Add(t, d) ==
    LET ns    == t.nsec + d.nsec
        carry == IF ns >= NanosPerSec THEN 1 ELSE 0
    IN  [sec  |-> t.sec + d.sec + carry,
         mono |-> t.mono + d.sec + carry,
         nsec |-> ns - carry * NanosPerSec]

\* t.Unix(): the wall time in seconds
Unix(t) == t.sec

\* t.Sub(u) when both carry a monotonic reading: the difference of the readings
Sub(t, u) ==
    LET borrow == IF t.nsec < u.nsec THEN 1 ELSE 0
    IN  [sec  |-> t.mono - u.mono - borrow,
         nsec |-> t.nsec - u.nsec + borrow * NanosPerSec]

\* t.After(u) when both carry a monotonic reading: that reading decides
After(t, u) == t.mono > u.mono \/ (t.mono = u.mono /\ t.nsec > u.nsec)

Second(t)     == t.sec % 60
Nanosecond(t) == t.nsec

\* the Minute(), Hour(), Day(), Month() and Weekday() of t
TimeOf(t) ==
    [minute  |-> (t.sec \div 60) % 60,
     hour    |-> (t.sec \div 3600) % 24,
     day     |-> BaseDate.day + (t.sec \div 86400),
     month   |-> BaseDate.month,
     weekday |-> (BaseDate.weekday + (t.sec \div 86400)) % 7]

\* the delay to the minute boundary itself
delayTillBoundary(fromt) ==
    IF Nanosecond(fromt) % NanosPerSec = 0
    THEN [sec |-> 60 - Second(fromt), nsec |-> 0]
    ELSE [sec |-> (60 - Second(fromt)) - 1,
          nsec |-> NanosPerSec - (Nanosecond(fromt) % NanosPerSec)]

\* a delay that leaves out the sub-second part of fromt
delayTillNextCheckWhole(fromt) ==
    [sec |-> 30 + (60 - Second(fromt)), nsec |-> 0]

\* 30s + (60 - Second) s - Nanosecond ns
delayTillNextCheck(fromt) ==
    IF Nanosecond(fromt) % NanosPerSec = 0
    THEN [sec |-> 30 + (60 - Second(fromt)), nsec |-> 0]
    ELSE [sec |-> 30 + (60 - Second(fromt)) - 1,
          nsec |-> NanosPerSec - (Nanosecond(fromt) % NanosPerSec)]

\* the times delayTillNextCheck is called on: every second of the minute, in
\* the first, a middle and the last minute of an hour and of the day, with
\* the least, a middle and the greatest sub-second parts
DelayMinutes == {0, 1, 59, 1439}
DelayNanos   == {0, 1, 500000000, NanosPerSec - 1}

EnterDelay ==
    /\ call = NoCall
    /\ \E m \in DelayMinutes : \E sc \in 0..59 : \E ns \in DelayNanos :
          call' = [fn |-> "delayTillNextCheck",
                   t  |-> [sec |-> m * 60 + sc, mono |-> 0, nsec |-> ns]]
    /\ UNCHANGED <<ret, probe, schedVars>>

DelayCall ==
    /\ call.fn = "delayTillNextCheck"
    /\ ret = NotRun
    /\ ret' = [delay |-> delayTillNextCheck(call.t)]
    /\ UNCHANGED <<call, probe, schedVars>>

-----------------------------------------------------------------------------
(* the scheduler: main and the goroutines of Job.Start                     *)

\* the most wake-ups of the loop in a run
MaxTicks == 3
\* the most executions of a job launched in a run
MaxStarts == 2

\* the tables the scheduler is run on
SchedTabs == {
    Join(<< Line(<<<<"a">>, STAR, STAR, STAR, STAR, STAR, <<"x">>>>, <<" ">>),
            Line(<<<<"b">>, <<"1", "/", "2">>, STAR, STAR, STAR, STAR, <<"y">>>>, <<" ">>) >>,
         <<"\n">>) }

J == DOMAIN jobs

\* the clock when main reads it first: 15:04:00 sharp, and 15:04:45.5
StartTimes ==
    { [sec |-> 54240, mono |-> 0, nsec |-> 0],
      [sec |-> 54285, mono |-> 0, nsec |-> NanosPerSec \div 2] }

\* the steps, in seconds, the wall clock may be set by while the loop sleeps
ClockJumps == {0 - 60, 0, 60}

\* the process is running: main has not returned, log.Fatalf has not been
\* called, no goroutine has panicked
Alive == pc \notin {"exit", "fatal", "panic"}

IsRunningNever(j) == FALSE

IsRunning(j) == running[j] # 0

\* j.wg.Wait() passes at once
WaitReturnsAlways(j) == TRUE

\* j.wg.Wait() returns when the counter is zero
WaitReturns(j) == wg[j] = 0

\* the executions of job j whose external process is running
Active(j) == {k \in DOMAIN execs[j] : execs[j][k].at = "proc"}

\* main up to the scheduler loop: the table is compiled, the signal goroutine
\* is set up, the first reference is prevCheck = now + delay - 60s
Main ==
    /\ pc = "main"
    /\ \E tab \in SchedTabs :
       LET parsed == ParseJobs("/etc/promcron", tab)
           zero   == [j \in DOMAIN parsed.jobs |-> 0]
       IN  IF parsed.err # nil
           THEN /\ pc' = "fatal"
                /\ UNCHANGED <<jobs, timeVars, jobVars, runningGauge, overdue,
                               success, failure, starts, dueTicks>>
           ELSE /\ pc' = "top"
                /\ jobs' = parsed.jobs
                /\ running' = zero /\ wg' = zero
                /\ execs' = [j \in DOMAIN parsed.jobs |-> <<>>]
                /\ runningGauge' = zero /\ overdue' = zero
                /\ success' = zero /\ failure' = zero
                /\ starts' = zero /\ dueTicks' = zero
                /\ \E t \in StartTimes :
                      /\ clock' = t
                      /\ now' = t
                      /\ delay' = delayTillNextCheck(t)
                      /\ nextCheck' = Add(t, delayTillNextCheck(t))
                      /\ prevCheck' = Add(Add(t, delayTillNextCheck(t)), Seconds(0 - 60))
    /\ UNCHANGED <<libVars, idx, done, sigs, forward, backward, ticks>>

\* for { now = time.Now() ... } down to the select: the delay, the next
\* check and the comparison with the reference of the iteration before
LoopTop ==
    /\ pc = "top"
    /\ now' = clock
    /\ delay' = delayTillNextCheck(now')
    /\ nextCheck' = Add(now', delay')
    /\ LET actualPrevCheck == Add(nextCheck', Seconds(0 - 60))
       IN  IF Unix(actualPrevCheck) # Unix(prevCheck)
           THEN IF After(actualPrevCheck, prevCheck)
                THEN forward' = forward + 1 /\ UNCHANGED backward
                ELSE backward' = backward + 1 /\ UNCHANGED forward
           ELSE UNCHANGED <<forward, backward>>
    /\ pc' = "select"
    /\ UNCHANGED <<libVars, jobs, clock, prevCheck, idx, done, sigs, jobVars,
                   runningGauge, overdue, success, failure, histVars>>

\* the statement after the body of "for _, j := range jobs" for job j
AfterJob(j) ==
    IF j < Len(jobs)
    THEN pc' = "eval" /\ idx' = j + 1 /\ UNCHANGED prevCheck
    ELSE pc' = "top" /\ idx' = 1 /\ prevCheck' = nextCheck

\* case <-time.After(delay): the timer fires after delay on the monotonic
\* clock; the wall clock may have been set meanwhile, by one of jumps.  The
\* delay is above 30s, so a done closed before the select makes it take the
\* other case; closed while main is parked in the select, it completes the
\* select with that case: the timer case is taken while done is open only.
Sleep(jumps) ==
    /\ pc = "select"
    /\ ~done
    /\ ticks < MaxTicks
    /\ \E jump \in jumps :
          /\ clock.sec + delay.sec + jump >= 0
          /\ clock' = [Add(clock, delay) EXCEPT !.sec = @ + jump]
    /\ ticks' = ticks + 1
    /\ pc' = "eval" /\ idx' = 1
    /\ UNCHANGED <<libVars, jobs, now, delay, nextCheck, prevCheck, done, sigs, jobVars,
                   metricVars, starts, dueTicks>>

TimerFires == Sleep(ClockJumps)

\* the same while nobody sets the clock
TimerFiresSteady == Sleep({0})

\* the seconds the wall clock may be off the scheduled wake-up when it is
\* less than half a minute off
Skews == {0 - 29, 0 - 1, 0, 1, 29}

\* the same under such a skew
TimerFiresSkewed == Sleep(Skews)

\* case <-done: break scheduler
DoneReceived ==
    /\ pc = "select"
    /\ done
    /\ pc' = "drain" /\ idx' = 1
    /\ UNCHANGED <<libVars, jobs, timeVars, done, sigs, jobVars, metricVars, histVars>>

\* the body of the loop over the jobs for job idx, down to the call of Start
EvalJob ==
    /\ pc = "eval"
    /\ LET j == idx
       IN  IF ~ShouldRunAt(jobs[j], TimeOf(now))
           THEN /\ AfterJob(j)
                /\ UNCHANGED <<runningGauge, overdue, dueTicks>>
           ELSE IF IsRunning(j)
           THEN /\ overdue' = [overdue EXCEPT ![j] = @ + 1]
                /\ dueTicks' = [dueTicks EXCEPT ![j] = @ + 1]
                /\ AfterJob(j)
                /\ UNCHANGED runningGauge
           ELSE /\ runningGauge' = [runningGauge EXCEPT ![j] = 1]
                /\ dueTicks' = [dueTicks EXCEPT ![j] = @ + 1]
                /\ pc' = "start"
                /\ UNCHANGED <<idx, prevCheck, overdue>>
    /\ UNCHANGED <<libVars, jobs, clock, now, delay, nextCheck, done, sigs, jobVars,
                   success, failure, forward, backward, ticks, starts>>

\* Job.Start once its wg.Wait() has returned: the flag, the counter, the
\* goroutine
\* the goroutine of one execution before it has run: no child, no time read,
\* onExit not called
NotCalled == [name |-> <<>>, duration |-> Seconds(0)]

NewExec ==
    [at |-> "spawned", res |-> "none", startTime |-> Seconds(0),
     endTime |-> Seconds(0), onExit |-> NotCalled]

\* a Start that does not wait for the previous execution's goroutine
StartNoWait(j) ==
    /\ running' = [running EXCEPT ![j] = 1]
    /\ wg' = [wg EXCEPT ![j] = @ + 1]
    /\ execs' = [execs EXCEPT ![j] = Append(@, NewExec)]
    /\ starts' = [starts EXCEPT ![j] = @ + 1]

Start(j) ==
    /\ WaitReturns(j)
    /\ running' = [running EXCEPT ![j] = 1]
    /\ wg' = [wg EXCEPT ![j] = @ + 1]
    /\ execs' = [execs EXCEPT ![j] = Append(@, NewExec)]
    /\ starts' = [starts EXCEPT ![j] = @ + 1]

\* j.Start(onJobExit) called from the loop
StartJob ==
    /\ pc = "start"
    /\ Start(idx)
    /\ AfterJob(idx)
    /\ UNCHANGED <<libVars, jobs, clock, now, delay, nextCheck, done, sigs, metricVars,
                   ticks, dueTicks>>

\* the goroutine of an execution moves to where next, with result res
Move(j, k, where, res) ==
    execs' = [execs EXCEPT ![j][k].at = where, ![j][k].res = res]

\* exec.Command and the launch in j.child.Run(): the process runs, or could
\* not be launched
Launch(j, k) ==
    /\ Alive
    /\ execs[j][k].at = "spawned"
    /\ \/ execs' = [execs EXCEPT ![j][k].at = "proc", ![j][k].startTime = clock]
       \/ execs' = [execs EXCEPT ![j][k].at = "exited",
                                  ![j][k].res = "launcherr",
                                  ![j][k].startTime = clock,
                                  ![j][k].endTime = clock]
    /\ UNCHANGED <<libVars, jobs, timeVars, ctlVars, running, wg, metricVars, histVars>>

\* j.child.Run() returns: the process has exited with status 0 or another
ProcExit(j, k) ==
    /\ Alive
    /\ execs[j][k].at = "proc"
    /\ \E res \in {"ok", "fail"} :
           execs' = [execs EXCEPT ![j][k].at = "exited", ![j][k].res = res,
                                  ![j][k].endTime = clock]
    /\ UNCHANGED <<libVars, jobs, timeVars, ctlVars, running, wg, metricVars, histVars>>

\* an exit handler that counts a non-zero exit under both counters
onJobExitBoth(j, k) ==
    /\ Alive
    /\ execs[j][k].at = "exited"
    /\ runningGauge' = [runningGauge EXCEPT ![j] = 0]
    /\ failure' = IF execs[j][k].res = "ok" THEN failure
                  ELSE [failure EXCEPT ![j] = @ + 1]
    /\ success' = [success EXCEPT ![j] = @ + 1]
    /\ execs' = [execs EXCEPT
                    ![j][k].at = IF execs[j][k].res = "launcherr"
                                 THEN "panicked" ELSE "reported",
                    ![j][k].onExit =
                        [name     |-> jobs[j].Name,
                         duration |-> Sub(execs[j][k].endTime, execs[j][k].startTime)]]
    /\ pc' = IF execs[j][k].res = "launcherr" THEN "panic" ELSE pc
    /\ UNCHANGED <<libVars, jobs, timeVars, idx, done, sigs, running, wg, overdue,
                   forward, backward, histVars>>

\* onExit(j.Name, ...): onJobExit sets the gauge and counts the outcome; with
\* no process launched cmd.ProcessState is nil and its SysUsage() panics
onJobExit(j, k) ==
    /\ Alive
    /\ execs[j][k].at = "exited"
    /\ runningGauge' = [runningGauge EXCEPT ![j] = 0]
    /\ IF execs[j][k].res = "ok"
       THEN success' = [success EXCEPT ![j] = @ + 1] /\ UNCHANGED failure
       ELSE failure' = [failure EXCEPT ![j] = @ + 1] /\ UNCHANGED success
    /\ execs' = [execs EXCEPT
                    ![j][k].at = IF execs[j][k].res = "launcherr"
                                 THEN "panicked" ELSE "reported",
                    ![j][k].onExit =
                        [name     |-> jobs[j].Name,
                         duration |-> Sub(execs[j][k].endTime, execs[j][k].startTime)]]
    /\ pc' = IF execs[j][k].res = "launcherr" THEN "panic" ELSE pc
    /\ UNCHANGED <<libVars, jobs, timeVars, idx, done, sigs, running, wg, overdue,
                   forward, backward, histVars>>

\* defer atomic.StoreInt32(&j.running, 0)
ResetRunning(j, k) ==
    /\ Alive
    /\ execs[j][k].at = "reported"
    /\ running' = [running EXCEPT ![j] = 0]
    /\ Move(j, k, "flagged", execs[j][k].res)
    /\ UNCHANGED <<libVars, jobs, timeVars, ctlVars, wg, metricVars, histVars>>

\* defer j.wg.Done(): the goroutine ends
WgDone(j, k) ==
    /\ Alive
    /\ execs[j][k].at = "flagged"
    /\ wg' = [wg EXCEPT ![j] = @ - 1]
    /\ execs' = [execs EXCEPT ![j] =
                   [i \in 1..(Len(@) - 1) |-> IF i < k THEN @[i] ELSE @[i + 1]]]
    /\ UNCHANGED <<libVars, jobs, timeVars, ctlVars, running, metricVars, histVars>>

\* the first SIGINT or SIGTERM the signal goroutine receives, once main has
\* set it up: close(done)
FirstSignal ==
    /\ Alive /\ pc # "main"
    /\ sigs = 0
    /\ sigs' = 1
    /\ done' = TRUE
    /\ UNCHANGED <<libVars, jobs, timeVars, pc, idx, jobVars, metricVars, histVars>>

\* a second signal that is received and does nothing
SecondSignalIgnored ==
    /\ Alive
    /\ sigs = 1
    /\ sigs' = 2
    /\ UNCHANGED <<libVars, jobs, timeVars, pc, idx, done, jobVars, metricVars, histVars>>

\* the second: log.Fatalf
SecondSignal ==
    /\ Alive
    /\ sigs = 1
    /\ sigs' = 2
    /\ pc' = "fatal"
    /\ UNCHANGED <<libVars, jobs, timeVars, idx, done, jobVars, metricVars, histVars>>

\* the statement after the body of the draining loop for job j
AfterDrain(j) ==
    IF j < Len(jobs) THEN pc' = "drain" /\ idx' = j + 1
    ELSE pc' = "exit" /\ idx' = j

\* a draining loop that waits for no job
DrainNoWait ==
    /\ pc = "drain"
    /\ AfterDrain(idx)
    /\ UNCHANGED <<libVars, jobs, timeVars, done, sigs, jobVars, metricVars, histVars>>

\* if j.IsRunning() { j.Wait() } for job idx: main enters Wait, or goes on
Drain ==
    /\ pc = "drain"
    /\ IF IsRunning(idx) THEN pc' = "wait" /\ UNCHANGED idx ELSE AfterDrain(idx)
    /\ UNCHANGED <<libVars, jobs, timeVars, done, sigs, jobVars, metricVars, histVars>>

\* Job.Wait returns
Wait ==
    /\ pc = "wait"
    /\ WaitReturns(idx)
    /\ AfterDrain(idx)
    /\ UNCHANGED <<libVars, jobs, timeVars, done, sigs, jobVars, metricVars, histVars>>

\* Job.Start called by the control task between two iterations of the loop,
\* whether the job is running or not
CallStart ==
    /\ pc = "top"
    /\ \E j \in J :
          /\ starts[j] < MaxStarts
          /\ pc' = "called" /\ idx' = j
    /\ UNCHANGED <<libVars, jobs, timeVars, done, sigs, jobVars, metricVars, histVars>>

\* that call goes past wg.Wait() and returns
CalledStart ==
    /\ pc = "called"
    /\ Start(idx)
    /\ pc' = "top" /\ idx' = 1
    /\ UNCHANGED <<libVars, jobs, timeVars, done, sigs, metricVars, ticks, dueTicks>>

Goroutines ==
    \E j \in J : \E k \in DOMAIN execs[j] :
        \/ Launch(j, k)
        \/ ProcExit(j, k)
        \/ onJobExit(j, k)
        \/ ResetRunning(j, k)
        \/ WgDone(j, k)

-----------------------------------------------------------------------------
(* specifications                                                          *)

\* the variables of the scheduler before main has run
Fresh ==
    /\ jobs = <<>>
    /\ clock = [sec |-> 0, mono |-> 0, nsec |-> 0]
    /\ now = clock /\ delay = Seconds(0) /\ nextCheck = clock /\ prevCheck = clock
    /\ idx = 1 /\ done = FALSE /\ sigs = 0
    /\ running = <<>> /\ wg = <<>> /\ execs = <<>>
    /\ runningGauge = <<>> /\ overdue = <<>> /\ success = <<>> /\ failure = <<>>
    /\ forward = 0 /\ backward = 0
    /\ ticks = 0 /\ starts = <<>> /\ dueTicks = <<>>

InitLib == call = NoCall /\ ret = NotRun /\ probe = NotRun /\ Fresh /\ pc = "exit"

NextBits == EnterGetBits \/ GetBitsCall
SpecBits == InitLib /\ [][NextBits]_vars

NextField == EnterRangeText \/ EnterStepIdiom \/ EnterListText \/ ParseTimeFieldCall
SpecField == InitLib /\ [][NextField]_vars

NextTable == EnterTable \/ EnterFieldLine \/ ParseJobsCall
SpecTable == InitLib /\ [][NextTable]_vars

NextLine == EnterSpacedLine \/ ParseJobsCall
SpecLine == InitLib /\ [][NextLine]_vars

NextDelay == EnterDelay \/ DelayCall
SpecDelay == InitLib /\ [][NextDelay]_vars

NextMatch == EnterMatchTable \/ ParseJobsCall \/ ShouldRunAtCall
SpecMatch == InitLib /\ [][NextMatch]_vars

\* the process starts
Init == call = NoCall /\ ret = NotRun /\ probe = NotRun /\ Fresh /\ pc = "main"

Next ==
    \/ Main
    \/ LoopTop \/ TimerFires \/ DoneReceived \/ EvalJob \/ StartJob
    \/ Goroutines
    \/ FirstSignal \/ SecondSignal
    \/ Drain \/ Wait

Spec == Init /\ [][Next]_vars

\* the scheduler on a steady clock with no signal delivered, and Start called
\* at any time between two iterations of its loop
NextStart ==
    \/ Main
    \/ LoopTop \/ TimerFiresSteady \/ EvalJob \/ StartJob
    \/ Goroutines
    \/ CallStart \/ CalledStart
SpecStart == Init /\ [][NextStart]_vars

\* the scheduler on a steady clock when main, each goroutine of Start and the
\* external processes keep making progress: the Go scheduler runs every
\* runnable goroutine, and every process started exits in the end
NextLive ==
    \/ Main
    \/ LoopTop \/ TimerFiresSteady \/ DoneReceived \/ EvalJob \/ StartJob
    \/ Goroutines
    \/ FirstSignal \/ SecondSignal
    \/ Drain \/ Wait
SpecLive ==
    /\ Init /\ [][NextLive]_vars
    /\ WF_vars(LoopTop \/ DoneReceived \/ EvalJob \/ StartJob \/ Drain \/ Wait)
    /\ WF_vars(Goroutines)

\* the loop on a clock that is off by less than half a minute at each wake-up;
\* the jobs it starts keep running
NextSkew == Main \/ LoopTop \/ TimerFiresSkewed \/ EvalJob \/ StartJob
SpecSkew == Init /\ [][NextSkew]_vars

-----------------------------------------------------------------------------
(* properties                                                              *)

\* C1: for every job, under any interleaving of the ticks of the scheduler,
\* calls of Start and completions, at most one external process of the job is
\* active at any time; a Start called while an execution is in progress waits
\* until that execution has fully completed (its goroutine has ended) before
\* it launches the next, so no job ever has two executions.
C1_OneExecution ==
    \A j \in DOMAIN execs :
        /\ Cardinality(Active(j)) <= 1
        /\ Len(execs[j]) <= 1

\* Start has been called while the process of the execution before is
\* running, and waits
C1_Witness ==
    /\ pc = "called"
    /\ starts[idx] = 1
    /\ Len(execs[idx]) = 1
    /\ execs[idx][1].at = "proc"

\* the job at idx is due in the evaluation the loop is making
DueNow == ShouldRunAt(jobs[idx], TimeOf(now))

\* a step of the control task out of the evaluation of the job at idx
EvalStep ==
    /\ pc = "eval"
    /\ pc' \in {"eval", "start", "top"}
    /\ <<pc', idx'>> # <<pc, idx>>

\* while the process lives, every tick at which a job was found due went to
\* one start or to one overdue increment; the start of the tick under way is
\* still to come
NoCatchUp ==
    pc \notin {"fatal", "panic"} =>
    \A j \in DOMAIN dueTicks :
        dueTicks[j] = starts[j] + overdue[j]
                      + (IF pc = "start" /\ idx = j THEN 1 ELSE 0)

\* C2: at every tick and for every job: due and not running, the job is
\* started; due and still running, no execution is started and its overdue
\* counter goes up by exactly one; not due, nothing happens.  Nothing is
\* queued or caught up: executions start and overdue counts change at the
\* evaluation of a due tick only, so a job running across k due ticks gets
\* exactly k overdue increments and a job that finished between two due
\* ticks is not started before the next.
C2_TickRule ==
    [][ /\ EvalStep =>
            IF DueNow /\ running[idx] = 0
            THEN /\ pc' = "start" /\ idx' = idx
                 /\ overdue' = overdue /\ starts' = starts
            ELSE IF DueNow
            THEN /\ pc' # "start"
                 /\ overdue' = [overdue EXCEPT ![idx] = @ + 1]
                 /\ starts' = starts /\ execs' = execs /\ running' = running
            ELSE /\ pc' # "start"
                 /\ overdue' = overdue
                 /\ starts' = starts /\ execs' = execs /\ running' = running
        /\ (pc = "start" /\ pc' \in {"eval", "top"}) =>
                 /\ starts' = [starts EXCEPT ![idx] = @ + 1]
                 /\ Len(execs'[idx]) = Len(execs[idx]) + 1
        /\ (pc # "main" /\ overdue' # overdue) => EvalStep
        /\ (pc # "main" /\ starts' # starts) => pc = "start"
        /\ NoCatchUp'
      ]_vars

\* after three ticks the first job, due at each, was started once and found
\* running twice; the second, due at one, ran, finished and was not started
\* again
C2_Witness ==
    /\ ticks = 3 /\ pc = "top"
    /\ dueTicks[1] = 3 /\ starts[1] = 1 /\ overdue[1] = 2
    /\ dueTicks[2] = 1 /\ starts[2] = 1 /\ overdue[2] = 0
    /\ execs[2] = <<>>

\* the values from lo to hi taken every st, as a set
Stepped(lo, hi, st) == {i \in lo..hi : (i - lo) % st = 0}

Returned == ret # NotRun

\* how many times character c occurs in text s
Count(s, c) == Cardinality({k \in DOMAIN s : s[k] = c})

\* C6: getBits(min, max, step) sets bit i iff min <= i <= max and i - min is
\* a multiple of step, and for step 1 the shift form equals what the loop
\* would compute.
C6_GetBitsExact ==
    (call.fn = "getBits" /\ Returned) =>
        /\ ret.bits = Stepped(call.min, call.max, call.step)
        /\ call.step = 1 => ret.bits = getBitsLoop(call.min, call.max, 1, {})

C6_Witness ==
    /\ call.fn = "getBits" /\ Returned
    /\ call.step = 1 /\ call.min = 5 /\ call.max = 59
    /\ ret.bits = 5..59

\* C4: "*" and "*/1" compile to every value of the bounds plus the star tag;
\* "*/S" with S > 1 to the stepped values without the tag; a range-expression
\* that does not start with "*" never carries the tag; a list carries it iff
\* one of its elements does.
C4_WildcardTag ==
    (call.fn = "parseTimeField" /\ Returned) =>
        LET r == BoundOf(call.kind)
        IN  /\ call.field \in {<<"*">>, <<"*", "/", "1">>} =>
                  ret.err = nil /\ ret.bits = (r.min..r.max) \cup {63}
            /\ \A st \in 2..MaxStep :
                  call.field = <<"*", "/">> \o Itoa(st) =>
                      ret.err = nil /\ ret.bits = Stepped(r.min, r.max, st)
            /\ \A k \in DOMAIN ret.calls :
                  (ret.calls[k].expr = <<>> \/ Head(ret.calls[k].expr) # "*")
                      => 63 \notin ret.calls[k].bits
            /\ ret.err = nil =>
                  (63 \in ret.bits <=> \E k \in DOMAIN ret.calls : 63 \in ret.calls[k].bits)

C4_Witness ==
    /\ call.fn = "parseTimeField" /\ Returned
    /\ call.kind = "minute" /\ call.field = <<"*", "/", "5">>
    /\ ret.bits = {0, 5, 10, 15, 20, 25, 30, 35, 40, 45, 50, 55}

\* C5: for every value N inside the bounds and every step S >= 1, "N/S"
\* compiles to the bitset of "N-max/S", the values N, N+S, ... up to max;
\* a bare "N" compiles to the bit N alone.
C5_StepIdiom ==
    (call.fn = "parseTimeField" /\ Returned) =>
        LET r == BoundOf(call.kind)
        IN  \A n \in r.min..r.max :
              /\ call.field = Itoa(n) => ret.err = nil /\ ret.bits = {n}
              /\ \A st \in 1..MaxStep :
                    call.field = Itoa(n) \o <<"/">> \o Itoa(st) =>
                        /\ ret.err = nil
                        /\ ret.bits = Stepped(n, r.max, st)
                        /\ ret.bits =
                             parseTimeField(Itoa(n) \o <<"-">> \o Itoa(r.max)
                                              \o <<"/">> \o Itoa(st), r).bits

C5_Witness ==
    /\ call.fn = "parseTimeField" /\ Returned
    /\ call.kind = "minute" /\ call.field = <<"5", "/", "1", "0">>
    /\ ret.bits = {5, 15, 25, 35, 45, 55}

\* C8: a range-expression whose start, end and step resolve is refused, with
\* no bits, exactly when start < min, end > max, start > end or step = 0.
C8_Validation ==
    (call.fn = "parseTimeField" /\ Returned) =>
        LET r == BoundOf(call.kind)
        IN  \A k \in DOMAIN ret.calls :
              LET c  == ret.calls[k]
                  rr == ResolveRange(c.expr, r)
              IN  /\ c.err # nil => c.bits = {}
                  /\ rr.err = nil =>
                       (c.err # nil <=> \/ rr.start < r.min
                                        \/ rr.end > r.max
                                        \/ rr.start > rr.end
                                        \/ rr.step = 0)

\* an inverted range, refused
C8_Witness ==
    /\ call.fn = "parseTimeField" /\ Returned
    /\ call.kind = "hour" /\ call.field = <<"2", "3", "-", "0">>
    /\ ret.err.msg = "beginning of range beyond end of range"

\* C9: a range-expression with more than one hyphen or more than one slash
\* is refused, whatever it starts with.
C9_TooManyRefused ==
    (call.fn = "parseTimeField" /\ Returned) =>
        \A k \in DOMAIN ret.calls :
            (Count(ret.calls[k].expr, "-") > 1 \/ Count(ret.calls[k].expr, "/") > 1)
                => ret.calls[k].err # nil

\* the bitset a job holds for a field
FieldOf(j, kind) ==
    CASE kind = "minute" -> j.Minute
      [] kind = "hour"   -> j.Hour
      [] kind = "dom"    -> j.Dom
      [] kind = "month"  -> j.Month
      [] kind = "dow"    -> j.Dow

\* C7: in every table that compiles, each field of each job has value bits
\* only inside its bounds; the one other bit that may be set is bit 63.
C7_FieldsInBounds ==
    (call.fn = "ParseJobs" /\ Returned /\ ret.err = nil) =>
        \A k \in DOMAIN ret.jobs : \A kind \in Kinds :
            FieldOf(ret.jobs[k], kind)
                \subseteq (BoundOf(kind).min..BoundOf(kind).max) \cup {63}

C7_Witness ==
    /\ call.fn = "ParseJobs" /\ Returned /\ ret.err = nil
    /\ Len(ret.jobs) = 3
    /\ ret.jobs[1].Minute = Stepped(0, 59, 5)
    /\ ret.jobs[2].Month = {12} /\ ret.jobs[2].Dow = {1}
    /\ ret.jobs[3].Minute = (0..59) \cup {63}

\* whether text txt, one of "*", "0" and "jan", admits value v
TextAdmits(txt, v) ==
    \/ txt = STAR
    \/ txt = <<"0">> /\ v = 0
    \/ txt = <<"j", "a", "n">> /\ v = 1

\* C3: ShouldRunAt is false when minute, hour or month is not in its field;
\* otherwise it is domMatch /\ dowMatch when the day-of-month or day-of-week
\* field carries the star tag and domMatch \/ dowMatch when neither does.  So
\* day-of-month 1 with day-of-week mon runs on every 1st and every Monday, and
\* day-of-month * with day-of-week mon on Mondays only.
C3_DayRule ==
    probe # NotRun =>
        LET j   == ret.jobs[probe.job]
            t   == probe.t
            f   == Tokenize(call.tab)
            rest == /\ TextAdmits(f[2], t.minute)
                    /\ TextAdmits(f[3], t.hour)
                    /\ TextAdmits(f[5], t.month)
            domMatch == t.day \in j.Dom
            dowMatch == t.weekday \in j.Dow
        IN  /\ probe.due =
                 IF t.minute \notin j.Minute \/ t.hour \notin j.Hour
                      \/ t.month \notin j.Month
                 THEN FALSE
                 ELSE IF 63 \in j.Dom \/ 63 \in j.Dow
                      THEN domMatch /\ dowMatch
                      ELSE domMatch \/ dowMatch
            /\ (f[4] = <<"1">> /\ f[6] = <<"m", "o", "n">>) =>
                 (probe.due <=> rest /\ (t.day = 1 \/ t.weekday = 1))
            /\ (f[4] = STAR /\ f[6] = <<"m", "o", "n">>) =>
                 (probe.due <=> rest /\ t.weekday = 1)

\* "j 0 0 1 * mon true" is due on a Monday that is not the 1st
C3_Witness ==
    /\ probe # NotRun
    /\ call.tab = Line(<<<<"j">>, <<"0">>, <<"0">>, <<"1">>, STAR, <<"m", "o", "n">>,
                         CMD>>, <<" ">>)
    /\ probe.t.day = 29 /\ probe.t.weekday = 1
    /\ probe.due

\* a line ParseJobs cannot turn into a job
Malformed(l) ==
    /\ ~SkippedLine(l)
    /\ \/ Len(Tokenize(l)) # 7
       \/ \E i \in DOMAIN FieldOrder :
             parseTimeField(Tokenize(l)[i + 1], BoundOf(FieldOrder[i])).err # nil

Least(S) == CHOOSE x \in S : \A y \in S : x <= y

\* C10: if some line that is neither blank nor a comment is malformed,
\* ParseJobs returns an error and no job list, whatever came before; the
\* error names the source, the 0-based number of the first such line and, for
\* a field that does not compile, the field.  Otherwise every such line gives
\* a job.
C10_AllOrNothing ==
    (call.fn = "ParseJobs" /\ Returned) =>
        LET lines == Split(call.tab, "\n")
            bad   == {k \in DOMAIN lines : Malformed(lines[k])}
        IN  IF bad = {}
            THEN /\ ret.err = nil /\ ~ret.nilJobs
                 /\ Len(ret.jobs) =
                      Cardinality({k \in DOMAIN lines : ~SkippedLine(lines[k])})
            ELSE LET k == Least(bad)
                     f == Tokenize(lines[k])
                 IN  /\ ret.nilJobs /\ ret.jobs = <<>>
                     /\ ret.err.msg = "parse error"
                     /\ ret.err.fname = call.fname
                     /\ ret.err.lno = k - 1
                     /\ IF Len(f) # 7
                        THEN ret.err.cause.msg = "expected a label, timespec and a command"
                        ELSE ret.err.cause.msg = FieldMessage(FieldOrder[Least(
                               {i \in DOMAIN FieldOrder :
                                  parseTimeField(f[i + 1], BoundOf(FieldOrder[i])).err
                                      # nil})])
                     /\ (f = <<<<"j">>, <<"0", "-", "5", "-", "1", "0">>, STAR, STAR,
                               STAR, STAR, CMD>>)
                           => ret.err.cause.msg = "invalid minute spec"

\* a good line, then "j 0-5-10 * * * * true" on line 1: no job at all
C10_Witness ==
    /\ call.fn = "ParseJobs" /\ Returned
    /\ Split(call.tab, "\n") =
         << Line(<<<<"j">>, STAR, STAR, STAR, STAR, STAR, CMD>>, <<" ">>),
            Line(<<<<"j">>, <<"0", "-", "5", "-", "1", "0">>, STAR, STAR, STAR, STAR,
                   CMD>>, <<" ">>) >>
    /\ ret.nilJobs /\ ret.err.lno = 1
    /\ ret.err.cause.msg = "invalid minute spec"
    /\ ret.err.cause.cause.msg = "too many hyphens"

\* the characters that separate the tokens of a line
Blank == {" ", "\t"}

\* the remainder of line l from the first character of its seventh token
Remainder(l) ==
    LET p == CHOOSE p \in DOMAIN l :
                 /\ l[p] \notin Blank
                 /\ p = 1 \/ l[p - 1] \in Blank
                 /\ Len(FieldsFunc(SubSeq(l, 1, p - 1), Blank)) = 6
    IN  SubSeq(l, p, Len(l))

\* C11: a line that is not blank and does not start with "#" and has seven
\* tokens or more (maximal runs of characters other than space and tab) gives
\* a job of its first six tokens and, as the command, the remainder of the
\* line from the first character of the seventh, verbatim; a line with fewer
\* than seven tokens is a parse error and no table.
C11_SevenTokens ==
    (call.fn = "ParseJobs" /\ Returned) =>
        LET l    == call.tab
            runs == FieldsFunc(l, Blank)
        IN  (runs # <<>> /\ l[1] # "#") =>
                IF Len(runs) >= 7
                THEN /\ ret.err = nil /\ Len(ret.jobs) = 1
                     /\ ret.jobs[1].Name = runs[1]
                     /\ ret.jobs[1].Minute = parseTimeField(runs[2], minuteBound).bits
                     /\ ret.jobs[1].Hour = parseTimeField(runs[3], hourBound).bits
                     /\ ret.jobs[1].Dom = parseTimeField(runs[4], domBound).bits
                     /\ ret.jobs[1].Month = parseTimeField(runs[5], monthBound).bits
                     /\ ret.jobs[1].Dow = parseTimeField(runs[6], dowBound).bits
                     /\ ret.jobs[1].Command = Remainder(l)
                ELSE /\ ret.err # nil /\ ret.nilJobs
                     /\ ret.err.cause.msg = "expected a label, timespec and a command"

\* a step of the loop from its top to its select
TopStep == pc = "top" /\ pc' \notin {"top", "called", "fatal", "panic"}

\* C12: at every iteration the loop compares nextCheck - 60s with the
\* reference of the iteration before, on the wall clock: equal to the second,
\* no counter changes; later (a minute was skipped), the forward counter goes
\* up by one and the backward counter stays; earlier (a minute comes again),
\* the backward counter goes up by one and the forward counter stays.
C12_JumpClassified ==
    [][ TopStep =>
          LET actualPrevCheck == Add(nextCheck', Seconds(0 - 60))
          IN  IF Unix(actualPrevCheck) = Unix(prevCheck)
              THEN forward' = forward /\ backward' = backward
              ELSE IF Unix(actualPrevCheck) > Unix(prevCheck)
              THEN forward' = forward + 1 /\ backward' = backward
              ELSE forward' = forward /\ backward' = backward + 1
      ]_vars

\* the calendar minute of t, counted from the midnight of BaseDate
MinuteOf(t) == Unix(t) \div 60

\* C13: when at every wake-up the wall clock is less than 30 seconds off the
\* scheduled instant, the time the loop reads for a tick is in the minute
\* after the one it read for the tick before (no minute is evaluated twice,
\* none is skipped) and neither anomaly counter ever leaves zero.
C13_SkewResilient ==
    [][ /\ (TopStep /\ ticks >= 1) => MinuteOf(now') = MinuteOf(now) + 1
        /\ forward' = 0 /\ backward' = 0
      ]_vars

\* the loop has woken three times, the third time 29 seconds early, and has
\* read the clock again
C13_Witness ==
    /\ ticks = 3 /\ pc = "select"
    /\ Second(now) = 1
    /\ forward = 0 /\ backward = 0

\* C14: on a steady clock, whenever the loop starts a job the job is due in
\* the wall-clock minute the start is issued in, the minute of the wake-up of
\* that tick: ShouldRunAt holds of the job at the time on the clock.
C14_DueWhenStarted ==
    [][ (pc = "start" /\ starts' # starts) =>
            ShouldRunAt(jobs[idx], TimeOf(clock))
      ]_vars

\* every execution started has completed: the flag of its job is idle and its
\* onExit has returned
AllCompleted ==
    \A j \in DOMAIN execs :
        /\ running[j] = 0
        /\ \A k \in DOMAIN execs[j] : execs[j][k].at = "flagged"

\* the process has terminated
Terminated == pc \in {"exit", "fatal", "panic"}

\* C15: after a shutdown request (done is closed) the loop goes on with the
\* evaluation of the tick it is in, to its last job; the timer wakes it for no
\* later tick, and a job is started in the tick under way only; main returns
\* only when every execution started has completed; and when every process
\* exits and every goroutine runs, the process terminates in the end.
C15_GracefulShutdown ==
    /\ [](pc = "exit" => AllCompleted)
    /\ [][ done =>
              /\ ticks' = ticks
              /\ starts' # starts => pc = "start"
              /\ (pc \in {"eval", "start"} /\ <<pc', idx'>> # <<pc, idx>>
                    /\ pc' \notin {"fatal", "panic"})
                   => pc' \in {"eval", "start", "top"}
          ]_vars
    /\ (done ~> Terminated)

\* main has returned after one shutdown request and the two jobs it had
\* started have completed
C15_Witness ==
    /\ pc = "exit" /\ sigs = 1
    /\ starts = <<1, 1>>
    /\ success[1] + failure[1] = 1 /\ success[2] + failure[2] = 1
    /\ AllCompleted

\* C16: once the signal goroutine has received a second shutdown request the
\* process is terminated, whatever main and the jobs were doing; and while
\* the process lives after a first request, in the draining loop too, nothing
\* stands in the way of the second: main cannot stay in Wait for ever on a
\* job that does not exit.
C16_SecondRequestKills ==
    /\ sigs = 2 => pc = "fatal"
    /\ (sigs = 1 /\ Alive) => ENABLED SecondSignal

\* the process was terminated by a second request while an external process
\* of the job at idx was running
C16_Witness ==
    /\ pc = "fatal" /\ sigs = 2 /\ done
    /\ running[idx] = 1
    /\ Active(idx) # {}

\* C17: a job that exits with a status other than 0, or that cannot be
\* launched, is not fatal to the scheduler: at the step where onExit counts
\* the failure, the failure counter of the job goes up by one, the success
\* counters stay, the control task is where it was (the process runs on) and
\* the goroutine goes on to set the job idle.
C17_JobErrorsNotFatal ==
    [][ \A j \in DOMAIN failure :
          failure'[j] # failure[j] =>
              /\ failure'[j] = failure[j] + 1
              /\ success' = success
              /\ pc' = pc
              /\ execs'[j] # <<>> /\ execs'[j][1].at = "reported"
      ]_vars

\* the executions of job j for which onExit has not been called yet
Pending(j) ==
    Cardinality({k \in DOMAIN execs[j] :
                    execs[j][k].at \in {"spawned", "proc", "exited"}})

\* the call onExit(name, duration, ...) made by execution k of job j in this
\* step: after the process finished, with the job's name and the time that
\* passed between the two readings of the clock around Run()
OnExitCalled(j, k) ==
    /\ execs[j][k].at = "exited"
    /\ execs'[j][k].at \in {"reported", "panicked"}
    /\ execs'[j][k].onExit.name = jobs[j].Name
    /\ LET d == execs'[j][k].onExit.duration
           e == Add(execs[j][k].startTime, d)
       IN  /\ d.sec >= 0 /\ d.nsec >= 0 /\ d.nsec < NanosPerSec
           /\ e.mono = execs[j][k].endTime.mono
           /\ e.nsec = execs[j][k].endTime.nsec
    /\ IF execs[j][k].res = "ok"
       THEN success'[j] = success[j] + 1 /\ failure'[j] = failure[j]
       ELSE failure'[j] = failure[j] + 1 /\ success'[j] = success[j]

\* C18: every Start leads to exactly one call of onExit for that execution,
\* made after the process has finished, with the job's name and the measured
\* duration; every completed execution adds one to exactly one of the job's
\* success counter (exit status 0) and failure counter (any other status).
C18_ExactlyOneExit ==
    /\ [](\A j \in J : starts[j] = success[j] + failure[j] + Pending(j))
    /\ [][ \A j \in DOMAIN success :
              (success'[j] # success[j] \/ failure'[j] # failure[j]) =>
                  /\ \E k \in DOMAIN execs[j] : OnExitCalled(j, k)
                  /\ \A i \in DOMAIN success \ {j} :
                        success'[i] = success[i] /\ failure'[i] = failure[i]
          ]_vars

C18_Witness ==
    \E j \in J :
        /\ starts[j] = 2 /\ success[j] = 1 /\ failure[j] = 1
        /\ \E k \in DOMAIN execs[j] :
              /\ execs[j][k].at = "reported"
              /\ execs[j][k].onExit.duration.sec > 0
              /\ execs[j][k].endTime.sec - execs[j][k].startTime.sec
                    # execs[j][k].onExit.duration.sec

\* C19: for every time t, with any second of the minute and any sub-second
\* part, delayTillNextCheck(t) is more than 30 seconds and at most 90
\* seconds, and t + delayTillNextCheck(t) is the start of t's minute plus 90
\* seconds: second 30.000 of the next minute, never a minute boundary.
C19_MidNextMinute ==
    (call.fn = "delayTillNextCheck" /\ ret # NotRun) =>
        LET t == call.t
            d == ret.delay
            e == Add(t, d)
        IN  /\ d.nsec >= 0 /\ d.nsec < NanosPerSec
            /\ d.sec > 30 \/ (d.sec = 30 /\ d.nsec > 0)
            /\ d.sec < 90 \/ (d.sec = 90 /\ d.nsec = 0)
            /\ Unix(e) = (Unix(t) - Second(t)) + 90
            /\ Nanosecond(e) = 0
            /\ Second(e) = 30
            /\ TimeOf(e).minute = (TimeOf(t).minute + 1) % 60

C19_Witness ==
    /\ call.fn = "delayTillNextCheck" /\ ret # NotRun
    /\ Second(call.t) = 59 /\ Nanosecond(call.t) = NanosPerSec - 1
    /\ ret.delay = [sec |-> 30, nsec |-> 1]

\* C20: whenever an external process of a job is executing, the job's running
\* flag is set; the deferred reset of a finished execution never overwrites
\* the mark of a later execution of the same job, under any interleaving of
\* the control task and the goroutines.
C20_RunningWhileActive ==
    /\ [](\A j \in DOMAIN execs : Active(j) # {} => IsRunning(j))
    /\ [][ \A j \in DOMAIN running :
              (IsRunning(j) /\ running'[j] = 0) =>
                  /\ \E k \in DOMAIN execs[j] :
                        execs[j][k].at = "reported" /\ execs'[j][k].at = "flagged"
                  /\ \A k \in DOMAIN execs'[j] : execs'[j][k].at = "flagged"
          ]_vars

C20_Witness ==
    \E j \in J :
        /\ starts[j] = 2
        /\ success[j] + failure[j] = 1
        /\ Active(j) # {}
        /\ IsRunning(j)

\* C21: every field text for which parseTimeField returns no error, texts
\* made only of commas included, compiles to a bitset with at least one
\* value bit inside the bounds of the field.
C21_SomeValueAdmitted ==
    (call.fn = "parseTimeField" /\ Returned /\ ret.err = nil) =>
        LET r == BoundOf(call.kind)
        IN  ret.bits \cap (r.min..r.max) # {}

====
